---- MODULE Spec2Model ----
(***************************************************************************)
(* Model of the RSA / Shor-style attack demonstrator:                      *)
(*   rsa.py          modinv, is_prime, generate_rsa_key, encrypt_message,  *)
(*                   decrypt_message                                       *)
(*   shor_attack.py  find_period_quantum, shor_classical, decrypt_attack   *)
(*   main_app.py     run_app                                               *)
(*                                                                         *)
(* Python's None is the value None below.  Every Optional[int] of the      *)
(* program (a period estimate, a factor, a private exponent) is            *)
(* non-negative when present, so None is an integer outside that range.    *)
(***************************************************************************)
EXTENDS Integers, Sequences, FiniteSets, TLC

\* Bounds of the model.
MaxN == 35          \* decrypt_attack is called with N in 0..MaxN
MaxE == 5           \* ... and e in 1..MaxE
MaxRetries == 2     \* ... and retries in 0..MaxRetries
MaxA == 12          \* modinv is called with a in 1..MaxA
MaxM == 12          \* ... and m in 2..MaxM
MaxMsgLen == 2      \* messages have at most MaxMsgLen characters

\* Program constants.
n_count == 4        \* counting qubits of find_period_quantum
primes_lower == 10  \* default of generate_rsa_key
primes_upper == 50  \* default of generate_rsa_key

None == -1

VARIABLES
    pc,             \* position of the running call
    N, e, retries,  \* arguments of decrypt_attack
    d,              \* private exponent of the generated key (None: no key)
    i,              \* iterations of the retry loop started so far
    a,              \* base sampled in the current iteration (None: none)
    r,              \* latest answer of find_period_quantum
    x,              \* a^(r/2) mod N of the current iteration
    oracleCalls,    \* number of calls of find_period_quantum
    estimateSeen,   \* some call of find_period_quantum returned a period
    wrongEstimate,  \* ... returned an r that is no period: a^r mod N # 1
    backend,        \* the AerSimulator handle of shor_classical: "none" or
                    \* "acquired" (no statement of the source releases it)
    factor1, factor2,                   \* what shor_classical returned
    factored_p, factored_q, d_factored, \* what decrypt_attack returned
    message, cipher, decrypted,         \* run_app: the three texts
    inv_a, inv_m, inv_d                 \* a call of modinv and its result

vars == <<pc, N, e, retries, d, i, a, r, x, oracleCalls, estimateSeen,
          wrongEstimate, backend,
          factor1, factor2, factored_p, factored_q, d_factored,
          message, cipher, decrypted, inv_a, inv_m, inv_d>>

shorVars == <<i, a, r, x, oracleCalls, estimateSeen, wrongEstimate,
              backend, factor1, factor2>>
attackVars == <<factored_p, factored_q, d_factored>>
rsaVars == <<message, cipher, decrypted>>
invVars == <<inv_a, inv_m, inv_d>>
argVars == <<N, e, retries, d>>

----------------------------------------------------------------------------
\* Pure functions.

RECURSIVE gcd(_, _)
gcd(m, n) == IF n = 0 THEN m ELSE gcd(n, m % n)

RECURSIVE pow(_, _, _)
pow(base, exp, mod) ==
    IF exp = 0 THEN 1 % mod
    ELSE LET h == pow(base, exp \div 2, mod)
             s == (h * h) % mod
         IN  IF exp % 2 = 1 THEN (s * (base % mod)) % mod ELSE s

\* (variant: the search stops one short, range(2, m - 1))
modinv_short_range(b, m) ==
    LET found == {c \in 2..(m - 2) : (b * c) % m = 1}
    IN  IF found = {} THEN None
        ELSE CHOOSE c \in found : \A c2 \in found : c <= c2

\* for d in range(2, m): if (a * d) % m == 1: return d;  return None
modinv(b, m) ==
    LET found == {c \in 2..(m - 1) : (b * c) % m = 1}
    IN  IF found = {} THEN None
        ELSE CHOOSE c \in found : \A c2 \in found : c <= c2

\* all(n % i != 0 for i in range(2, int(n**0.5) + 1)), n >= 2
is_prime(n) ==
    /\ n >= 2
    /\ \A k \in 2..n : k * k <= n => n % k # 0

\* The counting register holds n_count bits: `measured` is int(measured, 2),
\* one of shots == 2^n_count values, whichever the simulator reports most.
\* phase = measured / 2^n_count;  None if phase == 0, else round(1 / phase)
\* (no measured value puts 1/phase halfway between two integers).
shots == 2 ^ n_count
find_period_quantum(measured) ==
    IF measured = 0 THEN None
    ELSE (2 * shots + measured) \div (2 * measured)

\* (variant: only 0 counts as falsy)
Falsy_zero_only(v) == v = 0

\* `not v` for an Optional[int]
Falsy(v) == v = None \/ v = 0

\* primes = [i for i in range(primes_lower, primes_upper) if is_prime(i)];
\* p, q distinct choices of primes;  e = 3, 5, ... until gcd(e, phi_n) = 1.
\* The set of the keys <<n, e, d>> the call can return.
RECURSIVE first_e(_, _)
first_e(c, phi_n) == IF gcd(c, phi_n) # 1 THEN first_e(c + 2, phi_n) ELSE c

\* (variant: phi_n = (p - 1) * q - 1, a misplaced parenthesis)
rsa_key_wrong_phi(p, q) ==
    LET phi_n == (p - 1) * q - 1
        pub == first_e(3, phi_n)
    IN  <<p * q, pub, modinv(pub, phi_n)>>

rsa_key(p, q) ==
    LET phi_n == (p - 1) * (q - 1)
        pub == first_e(3, phi_n)
    IN  <<p * q, pub, modinv(pub, phi_n)>>

generate_rsa_key(lower, upper) ==
    LET primes == {k \in lower..(upper - 1) : is_prime(k)}
    IN  {rsa_key(p, q) : p \in primes, q \in primes} \
        {rsa_key(p, p) : p \in primes}

\* Characters are one-character strings; ord and chr convert between a
\* character and its code point.  Alphabet is the characters messages are
\* drawn from; any other code point is written "U+<code>".
Alphabet == {"A", "h", "~", "U+233", "U+8364"}
ord(c) ==
    CASE c = "A" -> 65
      [] c = "h" -> 104
      [] c = "~" -> 126
      [] c = "U+233" -> 233
      [] c = "U+8364" -> 8364
chr(k) ==
    IF \E c \in Alphabet : ord(c) = k
    THEN CHOOSE c \in Alphabet : ord(c) = k
    ELSE "U+" \o ToString(k)

Messages == UNION {[1..len -> Alphabet] : len \in 0..MaxMsgLen}

\* [pow(ord(c), e, n) for c in message]
encrypt_message(msg, n, pub) ==
    [k \in 1..Len(msg) |-> pow(ord(msg[k]), pub, n)]

\* ''.join(chr(pow(c, d, n)) for c in cipher);  pow raises TypeError when
\* d is None and the cipher is not empty
decrypt_message(ciph, n, priv) ==
    [k \in 1..Len(ciph) |-> chr(pow(ciph[k], priv, n))]

----------------------------------------------------------------------------
\* shor_classical

\* (variant: one iteration too many, range(retries + 1))
LoopRuns_one_more == i <= retries

\* for _ in range(retries): another iteration runs
LoopRuns == i < retries

\* (variant: tests whether a divides N instead of the gcd)
found_factor_divides(base, n) == n % base = 0

\* if gcd(a, N) != 1: the sampled base shares a factor with N
found_factor(base, n) == gcd(base, n) # 1

\* One trial, from the estimate to the end of the loop body: Continue, or
\* the pair <<factor1, factor2>> that is returned.
Continue == <<None, None>>

\* (variant: x = pow(a, r, N), the exponent not halved)
trial_full_exponent(base, est, n) ==
    IF est = None \/ est % 2 # 0 THEN Continue
    ELSE LET y == pow(base, est, n)
             f1 == gcd(y + 1, n)
             f2 == gcd(y - 1, n)
         IN  IF y = n - 1 \/ y = 1 THEN Continue
             ELSE IF f1 * f2 = n THEN <<f1, f2>>
             ELSE Continue

\* (variant: the candidates are returned without the product check)
trial_unchecked(base, est, n) ==
    IF est = None \/ est % 2 # 0 THEN Continue
    ELSE LET y == pow(base, est \div 2, n)
             f1 == gcd(y + 1, n)
             f2 == gcd(y - 1, n)
         IN  IF y = n - 1 \/ y = 1 THEN Continue
             ELSE <<f1, f2>>

trial(base, est, n) ==
    IF est = None \/ est % 2 # 0 THEN Continue
    ELSE LET y == pow(base, est \div 2, n)
             f1 == gcd(y + 1, n)
             f2 == gcd(y - 1, n)
         IN  IF y = n - 1 \/ y = 1 THEN Continue
             ELSE IF f1 * f2 = n THEN <<f1, f2>>
             ELSE Continue

\* (variant: the even check is missing)
ShorStart_no_even_check ==
    /\ pc = "call"
    /\ pc' = "loop"
    /\ backend' = "acquired"
    /\ UNCHANGED <<factor1, factor2>>
    /\ UNCHANGED <<i, a, r, x, oracleCalls, estimateSeen, wrongEstimate>>
    /\ UNCHANGED <<argVars, attackVars, rsaVars, invVars>>

\* if N % 2 == 0: return 2, None;  otherwise backend = AerSimulator(...)
ShorStart ==
    /\ pc = "call"
    /\ IF N % 2 = 0
       THEN /\ factor1' = 2
            /\ factor2' = None
            /\ pc' = "shor_returned"
            /\ UNCHANGED backend
       ELSE /\ pc' = "loop"
            /\ backend' = "acquired"
            /\ UNCHANGED <<factor1, factor2>>
    /\ UNCHANGED <<i, a, r, x, oracleCalls, estimateSeen, wrongEstimate>>
    /\ UNCHANGED <<argVars, attackVars, rsaVars, invVars>>

\* range(retries) is exhausted: return None, None
Exhausted ==
    /\ pc = "loop"
    /\ ~LoopRuns
    /\ factor1' = None
    /\ factor2' = None
    /\ pc' = "shor_returned"
    /\ UNCHANGED <<i, a, r, x, oracleCalls, estimateSeen, wrongEstimate>>
    /\ UNCHANGED backend
    /\ UNCHANGED <<argVars, attackVars, rsaVars, invVars>>

\* a = random.randint(2, N - 2);  if gcd(a, N) != 1: return gcd(a, N), None
Sample ==
    /\ pc = "loop"
    /\ LoopRuns
    /\ i' = i + 1
    /\ r' = None
    /\ IF N - 2 < 2
       THEN \* randint raises ValueError on an empty range
            /\ pc' = "ValueError"
            /\ UNCHANGED <<a, factor1, factor2>>
       ELSE \E base \in 2..(N - 2) :
            /\ a' = base
            /\ IF found_factor(base, N)
               THEN /\ factor1' = gcd(base, N)
                    /\ factor2' = None
                    /\ pc' = "shor_returned"
               ELSE /\ pc' = "oracle"
                    /\ UNCHANGED <<factor1, factor2>>
    /\ UNCHANGED <<x, oracleCalls, estimateSeen, wrongEstimate, backend>>
    /\ UNCHANGED <<argVars, attackVars, rsaVars, invVars>>

\* r = find_period_quantum(a, N, backend) and the rest of the loop body.
\* The locals a and x are dropped when the iteration ends in continue; r
\* stays until the next base is sampled.
Oracle ==
    /\ pc = "oracle"
    /\ \E measured \in 0..(shots - 1) :
        LET est == find_period_quantum(measured)
            out == trial(a, est, N)
        IN  /\ r' = est
            /\ oracleCalls' = oracleCalls + 1
            /\ estimateSeen' = (estimateSeen \/ est # None)
            /\ wrongEstimate' =
                (wrongEstimate \/ (est # None /\ pow(a, est, N) # 1))
            /\ IF out = Continue
               THEN /\ pc' = "loop"
                    /\ a' = None
                    /\ x' = None
                    /\ UNCHANGED <<factor1, factor2>>
               ELSE /\ pc' = "shor_returned"
                    /\ factor1' = out[1]
                    /\ factor2' = out[2]
                    /\ x' = pow(a, est \div 2, N)
                    /\ UNCHANGED a
    /\ UNCHANGED <<i, backend>>
    /\ UNCHANGED <<argVars, attackVars, rsaVars, invVars>>

----------------------------------------------------------------------------
\* decrypt_attack, after shor_classical returned

\* if not factored_q: factored_q = N // factored_p
second_factor(n, p, q) == IF Falsy(q) THEN n \div p ELSE q

\* (variant: (factored_p - 1) * factored_q - 1, a misplaced parenthesis)
phi_factored_misplaced(p, q) == (p - 1) * q - 1

\* phi_factored = (factored_p - 1) * (factored_q - 1)
phi_factored(p, q) == (p - 1) * (q - 1)

AttackFinish ==
    /\ pc = "shor_returned"
    /\ IF Falsy(factor1)
       THEN /\ pc' = "RuntimeError"
            /\ UNCHANGED attackVars
       ELSE LET p == factor1
                q == second_factor(N, p, factor2)
            IN  /\ factored_p' = p
                /\ factored_q' = q
                /\ d_factored' = modinv(e, phi_factored(p, q))
                /\ pc' = "attack_returned"
    /\ UNCHANGED <<argVars, shorVars, rsaVars, invVars>>

----------------------------------------------------------------------------
\* run_app: encrypt with the public key, decrypt with the private key

Encrypt ==
    /\ pc = "encrypt"
    /\ cipher' = encrypt_message(message, N, e)
    /\ pc' = "decrypt"
    /\ UNCHANGED <<message, decrypted>>
    /\ UNCHANGED <<argVars, shorVars, attackVars, invVars>>

Decrypt ==
    /\ pc = "decrypt"
    /\ IF d = None /\ Len(cipher) > 0
       THEN \* pow(c, None, n) raises TypeError
            /\ pc' = "TypeError"
            /\ UNCHANGED decrypted
       ELSE /\ decrypted' = decrypt_message(cipher, N, d)
            /\ pc' = "rsa_done"
    /\ UNCHANGED <<message, cipher>>
    /\ UNCHANGED <<argVars, shorVars, attackVars, invVars>>

\* a call of modinv
CallModinv ==
    /\ pc = "modinv_call"
    /\ inv_d' = modinv(inv_a, inv_m)
    /\ pc' = "modinv_returned"
    /\ UNCHANGED <<inv_a, inv_m>>
    /\ UNCHANGED <<argVars, shorVars, attackVars, rsaVars>>

----------------------------------------------------------------------------
\* Specifications.

NoShor ==
    /\ i = 0 /\ a = None /\ r = None /\ x = None
    /\ oracleCalls = 0 /\ estimateSeen = FALSE /\ wrongEstimate = FALSE
    /\ backend = "none"
    /\ factor1 = None /\ factor2 = None
    /\ factored_p = None /\ factored_q = None /\ d_factored = None
NoTexts == message = <<>> /\ cipher = <<>> /\ decrypted = <<>>
NoModinv == inv_a = None /\ inv_m = None /\ inv_d = None

GeneratedKeys == generate_rsa_key(primes_lower, primes_upper)

\* decrypt_attack(N, e, retries) on any small modulus and exponent
InitAttack ==
    /\ pc = "call"
    /\ N \in 0..MaxN
    /\ e \in 1..MaxE
    /\ retries \in 0..MaxRetries
    /\ d = None
    /\ NoShor /\ NoTexts /\ NoModinv

\* run_app: n, e, d = generate_rsa_key();  decrypt_attack(n, e, retries)
InitApp ==
    /\ pc = "call"
    /\ \E key \in GeneratedKeys : N = key[1] /\ e = key[2] /\ d = key[3]
    /\ retries \in 0..MaxRetries
    /\ NoShor /\ NoTexts /\ NoModinv

\* run_app: n, e, d = generate_rsa_key();  encrypt_message;  decrypt_message
InitRsa ==
    /\ pc = "encrypt"
    /\ \E key \in GeneratedKeys : N = key[1] /\ e = key[2] /\ d = key[3]
    /\ retries = 0
    /\ message \in Messages
    /\ cipher = <<>> /\ decrypted = <<>>
    /\ NoShor /\ NoModinv

\* modinv(a, m) for a >= 1, m >= 2
InitModinv ==
    /\ pc = "modinv_call"
    /\ inv_a \in 1..MaxA
    /\ inv_m \in 2..MaxM
    /\ inv_d = None
    /\ N = 0 /\ e = 0 /\ d = None /\ retries = 0
    /\ NoShor /\ NoTexts

NextAttack == ShorStart \/ Exhausted \/ Sample \/ Oracle \/ AttackFinish
NextRsa == Encrypt \/ Decrypt
NextModinv == CallModinv

SpecAttack == InitAttack /\ [][NextAttack]_vars
FairSpecAttack == SpecAttack /\ WF_vars(NextAttack)
SpecApp == InitApp /\ [][NextAttack]_vars
SpecRsa == InitRsa /\ [][NextRsa]_vars
SpecModinv == InitModinv /\ [][NextModinv]_vars

----------------------------------------------------------------------------
\* Properties.

ShorReturned == pc \in {"shor_returned", "attack_returned", "RuntimeError"}
\* shor_classical returned from inside an iteration on the gcd shortcut
ShortcutTaken == ShorReturned /\ a # None /\ gcd(a, N) # 1

\* C1 as stated: for odd N, when no call of find_period_quantum returned a
\* period, shor_classical returns (None, None) and decrypt_attack raises
\* the factorization-failed RuntimeError.
C1_AllUnavailable_Original ==
    (N % 2 = 1 /\ ~estimateSeen) =>
        /\ ShorReturned => (factor1 = None /\ factor2 = None)
        /\ pc # "attack_returned"

\* C1 amended: for odd N >= 5, when no call of find_period_quantum returned
\* a period and no sampled base shares a factor with N, shor_classical
\* returns (None, None) after exactly `retries` iterations and
\* decrypt_attack raises the RuntimeError instead of returning a key.
C1_AllUnavailable ==
    (N % 2 = 1 /\ N >= 5 /\ ~estimateSeen /\ ~ShortcutTaken) =>
        /\ ShorReturned => (factor1 = None /\ factor2 = None /\ i = retries)
        /\ pc \notin {"attack_returned", "ValueError"}
        /\ d_factored = None

C1_Witness ==
    /\ pc = "RuntimeError"
    /\ N % 2 = 1 /\ N >= 5
    /\ retries = 2 /\ oracleCalls = 2 /\ ~estimateSeen
    /\ factor1 = None /\ factor2 = None

\* C2: in the first iteration, for odd N, when the base a is coprime to N
\* and the oracle answers an even r with a^r mod N = 1 and a^(r/2) mod N
\* not in {1, N-1}, shor_classical returns in that iteration the pair
\* (gcd(x+1, N), gcd(x-1, N)), x = a^(r/2) mod N, whose product is N.
GoodPeriod(base, est, n) ==
    /\ est # None /\ est % 2 = 0
    /\ pow(base, est, n) = 1
    /\ pow(base, est \div 2, n) \notin {1, n - 1}

C2_GoodPeriodFactors ==
    [][(/\ pc = "oracle" /\ i = 1
        /\ N % 2 = 1 /\ a \in 2..(N - 2) /\ gcd(a, N) = 1
        /\ GoodPeriod(a, r', N))
       => (/\ pc' = "shor_returned"
           /\ i' = 1
           /\ x' = pow(a, r' \div 2, N)
           /\ factor1' = gcd(x' + 1, N)
           /\ factor2' = gcd(x' - 1, N)
           /\ factor1' * factor2' = N)]_vars

C2_Witness ==
    /\ pc = "shor_returned" /\ i = 1 /\ oracleCalls = 1
    /\ N % 2 = 1 /\ a \in 2..(N - 2) /\ gcd(a, N) = 1
    /\ GoodPeriod(a, r, N)
    /\ factor1 = gcd(x + 1, N) /\ factor2 = gcd(x - 1, N)
    /\ factor1 * factor2 = N /\ factor1 > 1 /\ factor2 > 1

\* C3 as stated: modinv(a, m) returns v in [2, m) with (a*v) mod m = 1 when
\* gcd(a, m) = 1, and None otherwise.
C3_Modinv_Original ==
    pc = "modinv_returned" =>
        IF gcd(inv_a, inv_m) = 1
        THEN inv_d \in 2..(inv_m - 1) /\ (inv_a * inv_d) % inv_m = 1
        ELSE inv_d = None

\* C3 amended: modinv(a, m) returns v in [2, m) with (a*v) mod m = 1 when
\* gcd(a, m) = 1 and a mod m # 1; it returns None when gcd(a, m) # 1 and
\* also when a mod m = 1 (the only inverse, 1, is outside [2, m)).
C3_Modinv ==
    pc = "modinv_returned" =>
        IF gcd(inv_a, inv_m) = 1 /\ inv_a % inv_m # 1
        THEN inv_d \in 2..(inv_m - 1) /\ (inv_a * inv_d) % inv_m = 1
        ELSE inv_d = None

C3_Witness ==
    /\ pc = "modinv_returned"
    /\ gcd(inv_a, inv_m) = 1 /\ inv_a % inv_m # 1 /\ inv_a > inv_m
    /\ inv_d \in 2..(inv_m - 1) /\ (inv_a * inv_d) % inv_m = 1

\* C4: for even N, shor_classical returns (2, None) whatever the retry
\* budget, without running an iteration or calling find_period_quantum.
C4_EvenShortcut ==
    N % 2 = 0 =>
        /\ pc \in {"call", "shor_returned", "attack_returned"}
        /\ oracleCalls = 0 /\ i = 0
        /\ ShorReturned => (factor1 = 2 /\ factor2 = None)

C4_Witness ==
    /\ pc = "shor_returned" /\ N % 2 = 0 /\ N > 2 /\ retries = 0
    /\ factor1 = 2 /\ factor2 = None /\ oracleCalls = 0

\* C5: for a generated key and a message whose character codes are all
\* below N, decrypting the encryption gives the message back, and the
\* ciphertext holds one integer of [0, N) per character, in order.
CodesBelow(msg, n) == \A k \in 1..Len(msg) : ord(msg[k]) < n

TrueFactors(p, q) == is_prime(p) /\ is_prime(q) /\ p * q = N

C6_RecoveredExponent ==
    (pc = "attack_returned" /\ TrueFactors(factored_p, factored_q)) =>
        (d_factored = d /\ d # None /\ (e * d_factored) % phi_factored(factored_p, factored_q) = 1)

C6_Witness ==
    /\ pc = "attack_returned"
    /\ factor2 = None /\ factored_q = N \div factored_p
    /\ TrueFactors(factored_p, factored_q)
    /\ d_factored = d /\ d # None

\* C7 as stated: decrypt_attack never returns a tuple whose private exponent
\* is None; when modinv finds no inverse the call fails instead.
C7_NoKeyWithoutInverse ==
    pc = "attack_returned" => d_factored # None

\* C8: for odd N >= 5, shor_classical runs at most `retries` iterations,
\* calls find_period_quantum at most once per iteration, returns in the
\* end, and returns (None, None) when the iterations ran out.
OddN5 == N % 2 = 1 /\ N >= 5

C8_BoundedRetries ==
    /\ [](OddN5 =>
            /\ i <= retries
            /\ oracleCalls <= i
            /\ pc = "oracle" => oracleCalls < i
            /\ pc # "ValueError"
            /\ (ShorReturned /\ a = None) =>
                (factor1 = None /\ factor2 = None /\ i = retries))
    /\ [][OddN5 => oracleCalls' <= oracleCalls + 1]_vars
    /\ (OddN5 => <>ShorReturned)

C8_Witness ==
    /\ OddN5 /\ ShorReturned /\ a = None
    /\ retries = 2 /\ i = 2 /\ oracleCalls = 2 /\ estimateSeen
    /\ factor1 = None /\ factor2 = None

\* C9: for N a product of two primes, the pair decrypt_attack uses and
\* returns has product N and both members above 1, whatever the oracle
\* answered.
IsSemiprime(n) ==
    \E p \in 2..n : \E q \in 2..n : is_prime(p) /\ is_prime(q) /\ p * q = n

C9_FactorPairInvariant ==
    (pc = "attack_returned" /\ IsSemiprime(N)) =>
        /\ factored_p * factored_q = N
        /\ factored_p > 1
        /\ factored_q > 1

\* an estimate that is no period was discarded, then a pair was returned
C9_Witness ==
    /\ pc = "attack_returned" /\ IsSemiprime(N) /\ N % 2 = 1
    /\ i = 2 /\ oracleCalls = 2 /\ wrongEstimate
    /\ factor2 # None
    /\ factored_p * factored_q = N /\ factored_p > 1 /\ factored_q > 1

\* C10: an iteration whose sampled base a (always in [2, N-2]) has
\* gcd(a, N) # 1 returns (gcd(a, N), None) at once, without calling
\* find_period_quantum, and no later iteration runs.
C10_GcdShortcut ==
    /\ [](a # None => a \in 2..(N - 2))
    /\ [][(pc = "loop" /\ i' = i + 1 /\ pc' # "ValueError" /\ gcd(a', N) # 1)
          => (/\ pc' = "shor_returned"
              /\ factor1' = gcd(a', N)
              /\ factor2' = None
              /\ oracleCalls' = oracleCalls)]_vars
    /\ [][ShorReturned
          => (/\ ShorReturned'
              /\ i' = i /\ a' = a /\ oracleCalls' = oracleCalls
              /\ factor1' = factor1 /\ factor2' = factor2)]_vars

C10_Witness ==
    /\ pc = "attack_returned" /\ N % 2 = 1
    /\ i = 1 /\ retries > i /\ oracleCalls = 0
    /\ a # None /\ gcd(a, N) # 1
    /\ factor1 = gcd(a, N) /\ factor2 = None

\* C11 as stated: shor_classical acquires its backend once, before the
\* retry loop, holds it while the loop runs, and has released it at every
\* exit: the gcd shortcut, the post-processing return, the exhausted return.
C11_BackendReleased ==
    /\ pc \in {"loop", "oracle"} => backend = "acquired"
    /\ (ShorReturned \/ pc = "ValueError") => backend # "acquired"

====
